---- MODULE Spec2Model ----
(***************************************************************************)
(* A model of the DevManager launcher: the CompatibleTokenHandler token    *)
(* slot (src/src/token_handler_compatible.py), the update check            *)
(* (src/src/updater.py) and the self-update helper                         *)
(* (src/src/updater.py, src/scripts/self_update.py).                       *)
(***************************************************************************)
EXTENDS Integers, Sequences, FiniteSets, TLC

VARIABLES
    now,        \* the wall clock, in hours (datetime.now(timezone.utc))
    slot,       \* the content of the token file CONFIG_DIR / TOKEN_FILE
    nextTok,    \* the next plaintext secrets.token_urlsafe(32) will return
    lastOp,     \* the most recent token-handler call, its result and the slot before it
    prevOp,     \* the call before lastOp
    consumed,   \* the plaintexts mark_token_used has been called with
    pc,         \* per process: the position inside the running token-handler call
    local,      \* per process: the token_data dictionary held in memory
    accepted,   \* per process: what validate_token returned to handle_token_mode
    before,     \* per process: the file content found by the last open(path, "w")
    current_version, \* BaseUpdater.current_version, a version string
    feed,       \* what the release feed answers to GET .../releases/latest
    checked,    \* the outcome of the last check_for_updates() and the feed it saw
    helper,     \* which self-update helper runs: the script updater.py writes, or scripts/self_update.py
    hpc,        \* the helper's position
    install,    \* the install directory
    backup,     \* the backup directory beside it
    update,     \* the staged update archive
    original,   \* the install directory as the helper found it
    launcherRunning, \* the launcher process that spawned the helper is still alive
    polls,      \* wait_for_process_exit: polls made so far
    relaunched, \* the helper has started the launcher from the install directory
    waitResult, \* what wait_for_process_exit returned
    backedUp,   \* the helper's backup step completed in this transaction
    cause,      \* the step at which the helper gave up
    restored,   \* how the helper's restore of the backup ended
    app,        \* BaseUpdater.app_name, a string
    platform,   \* platform_info["platform_key"], a string
    assets,     \* the asset names of the release the feed's tag names
    procs,      \* per process id: the worker process running under it
    wlast,      \* the last download_and_install_update() or stop_devautomator() call
    run,        \* the launcher run, counted from 1
    mode,       \* simple mode runs in the window ("gui") or in the terminal
    opc,        \* the orchestrator's position
    exitCode,   \* the launcher's exit code, once it has exited
    did,        \* the steps the orchestrator has performed
    wfeed,      \* what the worker's release feed answers
    args,       \* main(): the parsed command line
    env,        \* the machine main() runs on: installed or not, elevated or not
    ipc,        \* main()'s position
    spc,        \* the elevated install script's position
    installedExe, \* the launcher executable exists at the install location
    launches,   \* how many launcher instances were started from the install location
    firstRun,   \* what handle_first_run_installation() returned
    va,         \* a version string
    vb,         \* a version string
    vc,         \* a version string
    verdict,    \* the comparisons of va with vb, once made
    printed,    \* the token scripts/generate_token.py printed
    entered     \* how handle_token_mode(printed) went

tokenVars == <<now, slot, nextTok, lastOp, prevOp, consumed>>
procVars == <<pc, local, accepted, before>>
checkVars == <<current_version, feed, checked>>
helperVars == <<helper, hpc, install, backup, update, original, launcherRunning,
                polls, relaunched, waitResult, backedUp, cause, restored>>
updateVars == <<app, platform, assets, procs, wlast, run>>
orchVars == <<mode, opc, exitCode, did, wfeed>>
installVars == <<args, env, ipc, spc, installedExe, launches, firstRun>>
versionVars == <<va, vb, vc, verdict>>
devVars == <<printed, entered>>
restVars == <<installVars, versionVars, devVars>>
nonTokenVars == <<checkVars, helperVars, updateVars, orchVars, restVars>>
vars == <<now, slot, nextTok, lastOp, prevOp, consumed, pc, local, accepted, before,
          current_version, feed, checked,
          helper, hpc, install, backup, update, original, launcherRunning,
          polls, relaunched, waitResult, backedUp, cause, restored,
          app, platform, assets, procs, wlast, run,
          mode, opc, exitCode, did, wfeed,
          args, env, ipc, spc, installedExe, launches, firstRun,
          va, vb, vc, verdict, printed, entered>>

----------------------------------------------------------------------------
(* Bounds of the model. *)

MaxTokens == 2
MaxTime == 36
NumProcs == 2

(* Program constants. *)

TOKEN_EXPIRY_HOURS == 24

(* The clock advances in steps of half the expiry window, so that the instants  *)
(* before, at and after expires_at are all reached.                             *)
TickStep == TOKEN_EXPIRY_HOURS \div 2

----------------------------------------------------------------------------
(* The token file. *)

NoFile == [kind |-> "absent"]          \* token_file_path.exists() is False
EmptyFile == [kind |-> "empty"]        \* just opened with mode "w": truncated to zero bytes
None == [kind |-> "None"]
NoTime == -1                \* the "used_at" key is not in the dictionary

Procs == 1..NumProcs
BogusToken == 0             \* a plaintext generate_token never returned

IsRecord(f) == f.kind = "record"

\* _hash_token: sha256(token).hexdigest(), injective on the plaintexts in use
HashToken(token) == <<"sha256", token>>

\* the token_data dictionary generate_token builds
NewTokenData(token, t) ==
    [kind |-> "record",
     token_hash |-> HashToken(token),
     created_at |-> t,
     expires_at |-> t + TOKEN_EXPIRY_HOURS,
     used |-> FALSE,
     used_at |-> NoTime]

\* _load_token_data: None when the file is missing or json.load raises
LoadTokenData(f) == IF IsRecord(f) THEN f ELSE None

\* open(path, "w") followed by a completed json.dump and close: the file holds the record
SaveTokenDataKeep(f, data) == IF f = NoFile THEN data ELSE f
SaveTokenData(f, data) == data

\* the expiry test of validate_token
Expired(t, expires_at) == t > expires_at

\* validate_token's checks on the loaded dictionary, in order
ValidateCheck(td, token, t) ==
    IF td = None THEN "nodata"
    ELSE IF td.token_hash # HashToken(token) THEN "mismatch"
    ELSE IF Expired(t, td.expires_at) THEN "expired"
    ELSE IF td.used THEN "used"
    ELSE "ok"

\* token_data["used"] = True; token_data["used_at"] = now
MarkedUsedNoop(td, t) == td
MarkedUsed(td, t) == [td EXCEPT !.used = TRUE, !.used_at = t]

\* mark_token_used's test: a loaded dictionary whose hash matches
MarkCheckRevalidate(td, token, t) == ValidateCheck(td, token, t) = "ok"
MarkCheck(td, token, t) == td # None /\ td.token_hash = HashToken(token)

\* revoke_token's result for a file state
RevokeResultAlways(f) == TRUE
RevokeResult(f) == f # NoFile

NoOp == [op |-> "none", tok |-> BogusToken, ret |-> FALSE, pre |-> NoFile, at |-> 0]
Brief(o) == [op |-> o.op, tok |-> o.tok, ret |-> o.ret, at |-> o.at]

ProcIdle ==
    /\ pc = [p \in Procs |-> "idle"]
    /\ local = [p \in Procs |-> None]
    /\ accepted = [p \in Procs |-> FALSE]
    /\ before = [p \in Procs |-> NoFile]

----------------------------------------------------------------------------
(* Directories, and the file-tree operations the self-update helpers use.    *)
(* A directory is whether it exists and, per file name, which build's copy   *)
(* of that file it holds.  shutil.rmtree, shutil.copytree and                *)
(* ZipFile.extractall work file by file and raise at the first file that     *)
(* fails, leaving the files already handled.                                 *)

ExeName == "DevManager.exe"
Files == {ExeName, "lib"}
NoFiles == [f \in Files |-> "none"]
NoDir == [exists |-> FALSE, files |-> NoFiles]
EmptyDir == [exists |-> TRUE, files |-> NoFiles]
FullDir(build) == [exists |-> TRUE, files |-> [f \in Files |-> build]]

\* install_dir.exists() and any(install_dir.iterdir())
NonEmpty(d) == d.exists /\ \E f \in Files : d.files[f] # "none"
Present(d) == {f \in Files : d.files[f] # "none"}

\* shutil.rmtree(d): the directory is gone, or it raised after deleting some files
RmtreeOutcomes(d) ==
    {[ok |-> TRUE, dir |-> NoDir]}
    \cup {[ok |-> FALSE,
           dir |-> [exists |-> TRUE,
                    files |-> [f \in Files |-> IF f \in gone THEN "none" ELSE d.files[f]]]] :
          gone \in (SUBSET Present(d)) \ {Present(d)}}

\* shutil.copytree(src, dst) onto a path that does not exist: a full copy, or it
\* raised after copying some files
CopytreeOutcomes(src) ==
    {[ok |-> TRUE, dir |-> [exists |-> TRUE, files |-> src.files]]}
    \cup {[ok |-> FALSE,
           dir |-> [exists |-> TRUE,
                    files |-> [f \in Files |-> IF f \in done THEN src.files[f] ELSE "none"]]] :
          done \in (SUBSET Present(src)) \ {Present(src)}}

\* ZipFile(update_file).extractall(d): every member written over d, or it raised
\* after writing some of them; an unreadable archive raises before any write
ExtractOutcomes(u, d) ==
    IF ~u.exists \/ u.bad
    THEN {[ok |-> FALSE, dir |-> d]}
    ELSE {[ok |-> TRUE,
           dir |-> [exists |-> TRUE,
                    files |-> [f \in Files |-> IF f \in u.members THEN "new" ELSE d.files[f]]]]}
         \cup {[ok |-> FALSE,
                dir |-> [exists |-> TRUE,
                         files |-> [f \in Files |-> IF f \in done THEN "new" ELSE d.files[f]]]] :
               done \in (SUBSET u.members) \ {u.members}}

\* remove the failed installation if it exists, then copy the backup over it;
\* exceptions are caught and logged.  The result is whether both steps
\* completed and the install directory left.
RestoreKeepOutcomes(bk, inst) ==
    {[ok |-> c.ok,
      dir |-> [exists |-> TRUE,
               files |-> [f \in Files |-> IF c.dir.files[f] # "none" THEN c.dir.files[f]
                                          ELSE inst.files[f]]]] :
         c \in CopytreeOutcomes(bk)}
RestoreOutcomes(bk, inst) ==
    LET removed == IF inst.exists THEN RmtreeOutcomes(inst)
                   ELSE {[ok |-> TRUE, dir |-> inst]}
    IN  {r \in removed : ~r.ok} \cup CopytreeOutcomes(bk)

HelperIdle ==
    /\ helper = "none"
    /\ hpc = "idle"
    /\ install = FullDir("old")
    /\ backup = NoDir
    /\ update = [exists |-> FALSE, bad |-> FALSE, members |-> {}]
    /\ original = FullDir("old")
    /\ launcherRunning = FALSE
    /\ polls = 0
    /\ relaunched = FALSE
    /\ waitResult = "none"
    /\ backedUp = FALSE
    /\ cause = "none"
    /\ restored = "none"

\* application names, platform keys and the pieces of an asset name, as strings
DevManager == <<"D", "e", "v", "M", "a", "n", "a", "g", "e", "r">>
DevAutomator == <<"D", "e", "v", "A", "u", "t", "o", "m", "a", "t", "o", "r">>
AppNames == {DevManager, DevAutomator}
PlatformKeys == {<<"w", "i", "n", "d", "o", "w", "s">>, <<"m", "a", "c", "o", "s">>, <<"l", "i", "n", "u", "x">>}
DotZip == <<".", "z", "i", "p">>

\* the worker processes psutil can find: none under this id, one that exits on
\* terminate(), one that exits only on kill(), one that refuses both (AccessDenied)
NumWorkers == 2
Pids == 1..NumWorkers
NoProc == "none"
ProcKinds == {NoProc, "meek", "tough", "denied"}

NoCall == [op |-> "none", ret |-> "none", payload |-> "none", feed |-> [status |-> "error", tag |-> <<>>]]

UpdateIdle ==
    /\ app = DevManager
    /\ platform = <<"w", "i", "n", "d", "o", "w", "s">>
    /\ assets = {}
    /\ procs = [p \in Pids |-> NoProc]
    /\ wlast = NoCall
    /\ run = 1

NoExit == -1                \* the launcher has not exited
OrchIdle ==
    /\ mode = "none"
    /\ opc = "idle"
    /\ exitCode = NoExit
    /\ did = {}
    /\ wfeed = [status |-> "error", tag |-> <<>>]

NoVersion == <<>>
NoVerdict == [made |-> FALSE]
RestIdle ==
    /\ args = [valid |-> TRUE, test_encryption |-> FALSE, token |-> FALSE]
    /\ env = [running |-> "installed", admin |-> FALSE, gui |-> FALSE]
    /\ ipc = "idle"
    /\ spc = "idle"
    /\ installedExe = FALSE
    /\ launches = 0
    /\ firstRun = NoExit
    /\ va = NoVersion
    /\ vb = NoVersion
    /\ vc = NoVersion
    /\ verdict = NoVerdict
    /\ printed = BogusToken
    /\ entered = "none"

TokenIdle ==
    /\ now = 0
    /\ slot = NoFile
    /\ nextTok = 1
    /\ lastOp = NoOp
    /\ prevOp = Brief(NoOp)
    /\ consumed = {}

----------------------------------------------------------------------------
(* Version strings and the update check (BaseUpdater.check_for_updates).     *)
(* A string is a sequence of one-character strings.                          *)

MaxNum == 5
MaxParts == 3

DigitChars == <<"0", "1", "2", "3", "4", "5", "6", "7", "8", "9">>
IsDigit(c) == \E i \in 1..Len(DigitChars) : DigitChars[i] = c
DigitVal(c) == (CHOOSE i \in 1..Len(DigitChars) : DigitChars[i] = c) - 1

RECURSIVE Str(_)
\* str(n) for n >= 0
Str(n) == IF n < 10 THEN <<DigitChars[n + 1]>>
          ELSE Str(n \div 10) \o <<DigitChars[(n % 10) + 1]>>

RECURSIVE Join(_)
\* ".".join(str(n) for n in parts)
Join(parts) ==
    IF Len(parts) = 1 THEN Str(parts[1])
    ELSE Str(parts[1]) \o <<".">> \o Join(Tail(parts))

RECURSIVE LStripV(_)
\* tag.lstrip("v"): every leading "v" is removed
LStripV(s) == IF s # <<>> /\ Head(s) = "v" THEN LStripV(Tail(s)) ELSE s

RECURSIVE SplitDots(_)
\* s.split(".")
SplitDots(s) ==
    IF \A i \in 1..Len(s) : s[i] # "."
    THEN <<s>>
    ELSE LET k == CHOOSE i \in 1..Len(s) :
                      s[i] = "." /\ \A j \in 1..(i - 1) : s[j] # "."
         IN  <<SubSeq(s, 1, k - 1)>> \o SplitDots(SubSeq(s, k + 1, Len(s)))

RECURSIVE ToNum(_)
\* int(digits)
ToNum(ds) == IF ds = <<>> THEN 0
             ELSE 10 * ToNum(SubSeq(ds, 1, Len(ds) - 1)) + DigitVal(ds[Len(ds)])

\* packaging.version.parse on strings of digits, dots, "v" and other letters:
\* an optional single "v", then dot-separated non-empty decimal numbers;
\* anything else raises InvalidVersion
VersionParse(s) ==
    LET body == IF s # <<>> /\ Head(s) = "v" THEN Tail(s) ELSE s
        parts == SplitDots(body)
        valid == \A i \in 1..Len(parts) :
                     /\ parts[i] # <<>>
                     /\ \A j \in 1..Len(parts[i]) : IsDigit(parts[i][j])
    IN  IF valid
        THEN [ok |-> TRUE, release |-> [i \in 1..Len(parts) |-> ToNum(parts[i])]]
        ELSE [ok |-> FALSE, release |-> <<>>]

RECURSIVE StripTrailingZeros(_)
\* the release part of packaging's comparison key: trailing zeros dropped
StripTrailingZeros(r) ==
    IF r # <<>> /\ r[Len(r)] = 0
    THEN StripTrailingZeros(SubSeq(r, 1, Len(r) - 1))
    ELSE r

RECURSIVE TupleLess(_, _)
\* Python's tuple comparison a < b
TupleLess(a, b) ==
    IF b = <<>> THEN FALSE
    ELSE IF a = <<>> THEN TRUE
    ELSE IF Head(a) # Head(b) THEN Head(a) < Head(b)
    ELSE TupleLess(Tail(a), Tail(b))

\* latest_ver > current_ver
VersionGreaterOrEqual(latest, current) ==
    ~TupleLess(StripTrailingZeros(latest), StripTrailingZeros(current))
VersionGreater(latest, current) ==
    TupleLess(StripTrailingZeros(current), StripTrailingZeros(latest))

FeedError == [status |-> "error", tag |-> <<>>]    \* network failure or HTTP error status
FeedNoTag == [status |-> "ok", tag |-> <<>>]       \* release JSON with no tag_name
FeedTag(t) == [status |-> "ok", tag |-> t]

\* _get_latest_version: None on any exception, else tag_name.lstrip("v")
GetLatestVersion(f) ==
    IF f.status = "error" THEN [none |-> TRUE, str |-> <<>>]
    ELSE [none |-> FALSE, str |-> LStripV(f.tag)]

\* check_for_updates: "True", "False", or "raised" if an exception escaped
CheckForUpdatesResult(f, current) ==
    LET latest_version == GetLatestVersion(f)
    IN  IF latest_version.none \/ latest_version.str = <<>> THEN "False"
        ELSE LET current_ver == VersionParse(current)
                 latest_ver == VersionParse(latest_version.str)
             IN  IF ~current_ver.ok \/ ~latest_ver.ok
                 THEN "False"    \* except Exception: return False
                 ELSE IF VersionGreater(latest_ver.release, current_ver.release)
                      THEN "True" ELSE "False"

VERSION == Join(<<0, 1, 5>>)
CurrentVersions == {VERSION, Join(<<0, 1, 4>>)}

Numbers == (0..MaxNum) \cup {10}
Releases == UNION {[1..n -> Numbers] : n \in 1..MaxParts}
Prefixes == {<<>>, <<"v">>, <<"v", "v", "v">>}
WellFormedTags == {p \o Join(r) : p \in Prefixes, r \in Releases}
MalformedTags ==
    {<<"v">>, <<"x">>, <<".">>}
    \cup {Join(<<a, b>>) \o sfx : a \in Numbers, b \in Numbers,
                                  sfx \in {<<"x">>, <<".">>, <<".", ".", "1">>}}
    \cup {<<"x">> \o Join(<<a, b>>) : a \in Numbers, b \in Numbers}
Tags == WellFormedTags \cup MalformedTags
Feeds == {FeedError, FeedNoTag} \cup {FeedTag(t) : t \in Tags}

NotChecked == [ret |-> "none", feed |-> FeedError]

CheckIdle ==
    /\ current_version = VERSION
    /\ feed = FeedError
    /\ checked = NotChecked

InitCheck ==
    /\ current_version \in CurrentVersions
    /\ feed \in Feeds
    /\ checked = NotChecked
    /\ TokenIdle
    /\ ProcIdle
    /\ HelperIdle
    /\ UpdateIdle
    /\ OrchIdle
    /\ RestIdle

CheckForUpdates ==
    /\ checked.ret = "none"
    /\ checked' = [ret |-> CheckForUpdatesResult(feed, current_version), feed |-> feed]
    /\ UNCHANGED <<current_version, feed, tokenVars, procVars, helperVars, updateVars, orchVars, restVars>>

\* the network drops, or the latest release is replaced by one without a tag
FeedChanges ==
    /\ checked.ret # "none"
    /\ feed' \in {FeedError, FeedNoTag} \ {feed}
    /\ checked' = NotChecked
    /\ UNCHANGED <<current_version, tokenVars, procVars, helperVars, updateVars, orchVars, restVars>>

NextCheck == CheckForUpdates \/ FeedChanges

SpecCheck == InitCheck /\ [][NextCheck]_vars

RefPad(r, n) == [i \in 1..n |-> IF i <= Len(r) THEN r[i] ELSE 0]
\* a is a strictly greater version than b: at the first position where the
\* zero-padded releases differ, a is larger
RefNewer(a, b) ==
    LET n == IF Len(a) > Len(b) THEN Len(a) ELSE Len(b)
        pa == RefPad(a, n)
        pb == RefPad(b, n)
    IN  \E i \in 1..n : pa[i] > pb[i] /\ \A j \in 1..(i - 1) : pa[j] = pb[j]

\* C10: check_for_updates() returns True exactly when the feed's latest tag,
\* leading "v" stripped, parses to a version strictly greater than the current
\* version; with the feed unreachable, no tag, or an unparsable tag it returns
\* False without raising.  With current 0.1.4: v0.1.5 gives True, v0.1.4 and
\* v0.1.3 give False.
C10_CheckForUpdates ==
    checked.ret # "none" =>
        LET f == checked.feed
            t == LStripV(f.tag)
            newer == /\ f.status = "ok"
                     /\ t # <<>>
                     /\ VersionParse(t).ok
                     /\ RefNewer(VersionParse(t).release,
                                 VersionParse(current_version).release)
        IN  /\ checked.ret \in {"True", "False"}
            /\ checked.ret = "True" <=> newer
            /\ current_version = <<"0", ".", "1", ".", "4">> =>
                /\ f = FeedTag(<<"v", "0", ".", "1", ".", "5">>) => checked.ret = "True"
                /\ f = FeedTag(<<"v", "0", ".", "1", ".", "4">>) => checked.ret = "False"
                /\ f = FeedTag(<<"v", "0", ".", "1", ".", "3">>) => checked.ret = "False"

C10_Witness ==
    /\ current_version = <<"0", ".", "1", ".", "4">>
    /\ checked.feed = FeedTag(<<"v", "0", ".", "1", ".", "5">>)
    /\ checked.ret = "True"


----------------------------------------------------------------------------
(* The token handler, one call at a time, on a file system whose writes and   *)
(* deletions complete; interrupted writes are the subject of SpecTokenIO.     *)

InitToken ==
    /\ TokenIdle
    /\ ProcIdle
    /\ CheckIdle
    /\ HelperIdle
    /\ UpdateIdle
    /\ OrchIdle
    /\ RestIdle

Candidates == 0..(nextTok - 1)

Record(op, tok, ret) ==
    /\ lastOp' = [op |-> op, tok |-> tok, ret |-> ret, pre |-> slot, at |-> now]
    /\ prevOp' = Brief(lastOp)

GenerateToken ==
    /\ nextTok <= MaxTokens
    /\ slot' = SaveTokenData(slot, NewTokenData(nextTok, now))
    /\ nextTok' = nextTok + 1
    /\ Record("generate", nextTok, TRUE)
    /\ UNCHANGED <<now, consumed, procVars, nonTokenVars>>

ValidateToken(token) ==
    LET td == LoadTokenData(slot)
        ok == ValidateCheck(td, token, now) = "ok"
    IN  /\ slot' = IF ok THEN SaveTokenData(slot, MarkedUsed(td, now)) ELSE slot
        /\ Record("validate", token, ok)
        /\ UNCHANGED <<now, nextTok, consumed, procVars, nonTokenVars>>

MarkTokenUsed(token) ==
    LET td == LoadTokenData(slot)
        ok == MarkCheck(td, token, now)
    IN  /\ slot' = IF ok THEN SaveTokenData(slot, MarkedUsed(td, now)) ELSE slot
        /\ consumed' = consumed \cup {token}
        /\ Record("mark", token, ok)
        /\ UNCHANGED <<now, nextTok, procVars, nonTokenVars>>

RevokeToken ==
    /\ slot' = NoFile
    /\ Record("revoke", BogusToken, RevokeResult(slot))
    /\ UNCHANGED <<now, nextTok, consumed, procVars, nonTokenVars>>

Tick ==
    /\ now + TickStep <= MaxTime
    /\ now' = now + TickStep
    /\ UNCHANGED <<slot, nextTok, lastOp, prevOp, consumed, procVars, nonTokenVars>>

NextToken ==
    \/ GenerateToken
    \/ \E token \in Candidates : ValidateToken(token)
    \/ \E token \in Candidates : MarkTokenUsed(token)
    \/ RevokeToken
    \/ Tick

SpecToken == InitToken /\ [][NextToken]_vars

----------------------------------------------------------------------------
(* Claims about the token handler, checked under SpecToken. *)

Minted(token) == token >= 1 /\ token < nextTok

\* C2: generate_token() immediately followed by validate_token(plaintext) returns
\* True, and once mark_token_used(plaintext) has been called every later
\* validate_token(plaintext) returns False.
C2_UsedOnce ==
    /\ (/\ lastOp.op = "validate"
        /\ prevOp.op = "generate"
        /\ prevOp.tok = lastOp.tok
        /\ prevOp.at = lastOp.at) => lastOp.ret = TRUE
    /\ (lastOp.op = "validate" /\ lastOp.tok \in consumed) => lastOp.ret = FALSE

C2_Witness ==
    /\ lastOp.op = "validate"
    /\ Minted(lastOp.tok)
    /\ lastOp.tok \in consumed
    /\ IsRecord(lastOp.pre)
    /\ lastOp.pre.token_hash = HashToken(lastOp.tok)
    /\ ~Expired(lastOp.at, lastOp.pre.expires_at)
    /\ lastOp.ret = FALSE

\* C4: validate_token is a pure read: the persisted slot is the same before and
\* after every call.
C4_ValidatePure == lastOp.op = "validate" => slot = lastOp.pre

\* C5 (as claimed): mark_token_used re-validates: it returns True and marks the
\* slot used only for a matching, unexpired, unused token, and otherwise returns
\* False and leaves the slot unchanged.
C5_MarkRevalidates ==
    lastOp.op = "mark" =>
        IF ValidateCheck(LoadTokenData(lastOp.pre), lastOp.tok, lastOp.at) = "ok"
        THEN lastOp.ret = TRUE /\ slot = MarkedUsed(lastOp.pre, lastOp.at)
        ELSE lastOp.ret = FALSE /\ slot = lastOp.pre

\* C5 (amended): mark_token_used does not re-validate: whenever a slot is stored
\* whose hash matches the candidate, also for an expired or already-used token,
\* it sets used=true, used_at=now, saves the slot and returns True; otherwise it
\* returns False and leaves the slot unchanged.
C5_MarkHashOnly ==
    lastOp.op = "mark" =>
        IF IsRecord(lastOp.pre) /\ lastOp.pre.token_hash = HashToken(lastOp.tok)
        THEN /\ lastOp.ret = TRUE
             /\ slot = [lastOp.pre EXCEPT !.used = TRUE, !.used_at = lastOp.at]
        ELSE lastOp.ret = FALSE /\ slot = lastOp.pre

C5_Witness ==
    /\ lastOp.op = "mark"
    /\ IsRecord(lastOp.pre)
    /\ lastOp.pre.token_hash = HashToken(lastOp.tok)
    /\ lastOp.pre.used
    /\ lastOp.at > lastOp.pre.expires_at
    /\ lastOp.ret = TRUE
    /\ slot.used_at = lastOp.at

\* C6: after a second generate_token(), validate_token on the plaintext of an
\* earlier generate_token() returns False, used or not.
C6_SingleSlot ==
    (lastOp.op = "validate" /\ Minted(lastOp.tok) /\ lastOp.tok < nextTok - 1)
        => lastOp.ret = FALSE

C6_Witness ==
    /\ lastOp.op = "validate"
    /\ Minted(lastOp.tok)
    /\ lastOp.tok < nextTok - 1
    /\ lastOp.tok \notin consumed
    /\ IsRecord(lastOp.pre)
    /\ ~lastOp.pre.used
    /\ lastOp.ret = FALSE

\* C7 (as claimed): revoke_token returns True when the slot is already absent, so
\* two revoke_token() calls in a row both return True.
C7_RevokeIdempotent ==
    /\ (lastOp.op = "revoke" /\ lastOp.pre = NoFile) => lastOp.ret = TRUE
    /\ (lastOp.op = "revoke" /\ prevOp.op = "revoke") => lastOp.ret = TRUE
    /\ lastOp.op = "revoke" => slot = NoFile

\* C7 (amended): revoke_token returns True only when a slot file existed and was
\* deleted, and False when the slot is already absent; so a revoke_token() call
\* that directly follows a successful one returns False. No slot is left after
\* either.
C7_RevokeReportsDeletion ==
    /\ lastOp.op = "revoke" => (lastOp.ret = TRUE <=> lastOp.pre # NoFile)
    /\ (lastOp.op = "revoke" /\ prevOp.op = "revoke" /\ prevOp.ret) => lastOp.ret = FALSE
    /\ lastOp.op = "revoke" => slot = NoFile

C7_Witness ==
    /\ lastOp.op = "revoke"
    /\ prevOp.op = "revoke"
    /\ prevOp.ret = TRUE
    /\ lastOp.ret = FALSE
    /\ slot = NoFile

\* C8: validate_token returns False at every time now >= expires_at, the instant
\* now = expires_at included, whether or not the token was used before.
C8_ExpiredAtBoundary ==
    (/\ lastOp.op = "validate"
     /\ IsRecord(lastOp.pre)
     /\ lastOp.pre.expires_at = lastOp.pre.created_at + TOKEN_EXPIRY_HOURS
     /\ lastOp.at >= lastOp.pre.expires_at) => lastOp.ret = FALSE

----------------------------------------------------------------------------
(* The token file under concurrent processes and interrupted writes.  Each    *)
(* process runs handle_token_mode(token) on the freshly minted plaintext      *)
(* (validate_token, then mark_token_used) or mints a new token; every read    *)
(* and write of the token file is a step of its own, and a process may be     *)
(* killed between any two steps.  _save_token_data opens the file with mode   *)
(* "w", which truncates it, and the record reaches the file when json.dump's  *)
(* buffered output is flushed by the close.  When two writers overlap, the    *)
(* one that closes last is taken to leave its record whole.                   *)

FreshToken == 1

InitTokenIO ==
    /\ now = 0
    /\ slot = NewTokenData(FreshToken, 0)
    /\ nextTok = FreshToken + 1
    /\ lastOp = NoOp
    /\ prevOp = Brief(NoOp)
    /\ consumed = {}
    /\ ProcIdle
    /\ CheckIdle
    /\ HelperIdle
    /\ UpdateIdle
    /\ OrchIdle
    /\ RestIdle

Goto(p, label) == pc' = [pc EXCEPT ![p] = label]

\* handle_token_mode(token) is entered
StartCheck(p) ==
    /\ pc[p] = "idle"
    /\ Goto(p, "v_load")
    /\ UNCHANGED <<tokenVars, local, accepted, before, nonTokenVars>>

\* generate_token() is entered: the token and its dictionary are built in memory
StartMint(p) ==
    /\ pc[p] = "idle"
    /\ nextTok <= MaxTokens
    /\ local' = [local EXCEPT ![p] = NewTokenData(nextTok, now)]
    /\ nextTok' = nextTok + 1
    /\ Goto(p, "g_open")
    /\ UNCHANGED <<now, slot, lastOp, prevOp, consumed, accepted, before, nonTokenVars>>

\* validate_token: _load_token_data and the checks on the loaded dictionary
ValidateLoad(p) ==
    /\ pc[p] = "v_load"
    /\ LET td == LoadTokenData(slot)
       IN  IF ValidateCheck(td, FreshToken, now) = "ok"
           THEN /\ local' = [local EXCEPT ![p] = MarkedUsed(td, now)]
                /\ Goto(p, "v_open")
                /\ UNCHANGED accepted
           ELSE /\ accepted' = [accepted EXCEPT ![p] = FALSE]
                /\ Goto(p, "rejected")
                /\ UNCHANGED local
    /\ UNCHANGED <<tokenVars, before, nonTokenVars>>

\* mark_token_used: _load_token_data and the hash comparison
MarkLoad(p) ==
    /\ pc[p] = "m_load"
    /\ LET td == LoadTokenData(slot)
       IN  IF MarkCheck(td, FreshToken, now)
           THEN /\ local' = [local EXCEPT ![p] = MarkedUsed(td, now)]
                /\ Goto(p, "m_open")
           ELSE /\ Goto(p, "menu")
                /\ UNCHANGED local
    /\ UNCHANGED <<tokenVars, accepted, before, nonTokenVars>>

AfterOpen(label) ==
    CASE label = "v_open" -> "v_dump"
      [] label = "m_open" -> "m_dump"
      [] label = "g_open" -> "g_dump"

AfterDump(label) ==
    CASE label = "v_dump" -> "m_load"
      [] label = "m_dump" -> "menu"
      [] label = "g_dump" -> "minted"

\* _save_token_data: open(self.token_file_path, "w") truncates the file
SaveOpen(p) ==
    /\ pc[p] \in {"v_open", "m_open", "g_open"}
    /\ before' = [before EXCEPT ![p] = slot]
    /\ slot' = EmptyFile
    /\ Goto(p, AfterOpen(pc[p]))
    /\ UNCHANGED <<now, nextTok, lastOp, prevOp, consumed, local, accepted, nonTokenVars>>

\* _save_token_data: json.dump and the close that ends the with block;
\* validate_token then returns True
SaveDump(p) ==
    /\ pc[p] \in {"v_dump", "m_dump", "g_dump"}
    /\ slot' = local[p]
    /\ accepted' = [accepted EXCEPT ![p] = (pc[p] = "v_dump") \/ accepted[p]]
    /\ Goto(p, AfterDump(pc[p]))
    /\ UNCHANGED <<now, nextTok, lastOp, prevOp, consumed, local, before, nonTokenVars>>

\* the process is killed (or the machine loses power) between two steps
Interrupt(p) ==
    /\ pc[p] \in {"v_load", "v_open", "v_dump", "m_load", "m_open", "m_dump",
                  "g_open", "g_dump"}
    /\ Goto(p, IF pc[p] \in {"v_dump", "m_dump", "g_dump"}
               THEN "killed_in_write" ELSE "killed")
    /\ UNCHANGED <<tokenVars, local, accepted, before, nonTokenVars>>

NextTokenIO ==
    \/ \E p \in Procs : StartCheck(p)
    \/ \E p \in Procs : StartMint(p)
    \/ \E p \in Procs : ValidateLoad(p)
    \/ \E p \in Procs : MarkLoad(p)
    \/ \E p \in Procs : SaveOpen(p)
    \/ \E p \in Procs : SaveDump(p)
    \/ \E p \in Procs : Interrupt(p)
    \/ Tick

SpecTokenIO == InitTokenIO /\ [][NextTokenIO]_vars

\* C3: of the processes that run the token check on the same freshly minted
\* plaintext, at most one obtains a successful validation, under every
\* interleaving of their reads and writes of the slot file.
C3_AtMostOneAccepted == Cardinality({p \in Procs : accepted[p]}) <= 1

InWrite(p) == pc[p] \in {"v_dump", "m_dump", "g_dump"}

\* C9: when a write of the slot file is interrupted, and no other write is under
\* way, the file holds the complete previous record or the complete new one.
C9_AtomicWrite ==
    \A p \in Procs :
        (pc[p] = "killed_in_write" /\ \A q \in Procs : ~InWrite(q))
            => slot \in {before[p], local[p]}

\* _save_token_data: open(self.token_file_path, "w") raises (the file is
\* read-only or locked); the except clause logs and returns False, the file is
\* untouched, and the caller, which ignores the result, goes on to return True
SaveOpenFails(p) ==
    /\ pc[p] \in {"v_open", "m_open", "g_open"}
    /\ accepted' = [accepted EXCEPT ![p] = (pc[p] = "v_open") \/ accepted[p]]
    /\ Goto(p, AfterDump(AfterOpen(pc[p])))
    /\ UNCHANGED <<tokenVars, local, before, nonTokenVars>>

\* _save_token_data: json.dump or the close raises (the disk is full); the
\* file stays as the open left it, and the caller goes on to return True
SaveDumpFails(p) ==
    /\ pc[p] \in {"v_dump", "m_dump", "g_dump"}
    /\ accepted' = [accepted EXCEPT ![p] = (pc[p] = "v_dump") \/ accepted[p]]
    /\ Goto(p, AfterDump(pc[p]))
    /\ UNCHANGED <<tokenVars, local, before, nonTokenVars>>

NextTokenFault ==
    \/ NextTokenIO
    \/ \E p \in Procs : SaveOpenFails(p)
    \/ \E p \in Procs : SaveDumpFails(p)

SpecTokenFault == InitTokenIO /\ [][NextTokenFault]_vars

\* C29: a validate_token call that returns True leaves used = true written in
\* the token file.
C29_AcceptedMeansWritten ==
    [][\A p \in Procs :
          (accepted'[p] /\ ~accepted[p]) => (IsRecord(slot') /\ slot'.used)]_vars

----------------------------------------------------------------------------
(* The self-update helper.  DevManagerUpdater._create_self_update_script     *)
(* writes and spawns one helper ("embedded"); scripts/self_update.py is the  *)
(* other ("script").  The launcher that spawned the helper exits on its own. *)

max_wait == 30

Archives == {[exists |-> TRUE, bad |-> b, members |-> m] :
                 b \in BOOLEAN, m \in (SUBSET Files) \ {{}}}

\* an install directory a failed earlier restore left without its executable
PartialDir == [exists |-> TRUE,
               files |-> [f \in Files |-> IF f = ExeName THEN "none" ELSE "old"]]

InitHelper ==
    /\ helper \in {"embedded", "script"}
    /\ hpc = "start"
    /\ install \in {FullDir("old"), PartialDir, EmptyDir}
    /\ original = install
    /\ backup \in {NoDir, FullDir("stale")}
    /\ update \in Archives
    /\ launcherRunning = TRUE
    /\ polls = 0
    /\ relaunched = FALSE
    /\ waitResult = "none"
    /\ backedUp = FALSE
    /\ cause = "none"
    /\ restored = "none"
    /\ TokenIdle
    /\ ProcIdle
    /\ CheckIdle
    /\ UpdateIdle
    /\ OrchIdle
    /\ RestIdle

HGoto(label) == hpc' = label
NotHelper == <<tokenVars, procVars, checkVars, updateVars, orchVars, restVars>>

\* the helper gives up at this step
Fail(why) == cause' = why

\* the launcher process ends (sys.exit after the update was started)
LauncherExit ==
    /\ launcherRunning
    /\ launcherRunning' = FALSE
    /\ UNCHANGED <<helper, hpc, install, backup, update, original, polls, relaunched,
                   waitResult, backedUp, cause, restored, NotHelper>>

\* embedded main(): the elevation check; a refused elevation ends the helper
\* with nothing done
E_Start ==
    /\ helper = "embedded" /\ hpc = "start"
    /\ \/ HGoto("wait") /\ UNCHANGED cause
       \/ HGoto("exit_fail") /\ Fail("elevation")
    /\ UNCHANGED <<helper, install, backup, update, original, launcherRunning, polls,
                   relaunched, waitResult, backedUp, restored, NotHelper>>

\* embedded main(): time.sleep(3), whatever the launcher is doing
E_Sleep ==
    /\ helper = "embedded" /\ hpc = "wait"
    /\ HGoto("backup")
    /\ UNCHANGED <<helper, install, backup, update, original, launcherRunning, polls,
                   relaunched, waitResult, backedUp, cause, restored, NotHelper>>

\* the backup step shared by both helpers: remove an old backup, copy the
\* install directory; result is whether it completed and the backup directory left
BackupOutcomes(inst, bk) ==
    LET removed == IF bk.exists THEN RmtreeOutcomes(bk) ELSE {[ok |-> TRUE, dir |-> bk]}
    IN  {r \in removed : ~r.ok} \cup CopytreeOutcomes(inst)

\* embedded main(): mkdir, then the backup if the install directory is not empty;
\* an exception goes to the except block
E_Backup ==
    /\ helper = "embedded" /\ hpc = "backup"
    /\ IF NonEmpty(install)
       THEN \E r \in BackupOutcomes(install, backup) :
                /\ backup' = r.dir
                /\ backedUp' = r.ok
                /\ IF r.ok THEN HGoto("extract") /\ UNCHANGED cause
                   ELSE HGoto("rollback") /\ Fail("backup")
       ELSE /\ HGoto("extract")
            /\ UNCHANGED <<backup, backedUp, cause>>
    /\ install' = [install EXCEPT !.exists = TRUE]
    /\ UNCHANGED <<helper, update, original, launcherRunning, polls, relaunched,
                   waitResult, restored, NotHelper>>

\* embedded main(): extractall into the install directory, then unlink the archive
E_Extract ==
    /\ helper = "embedded" /\ hpc = "extract"
    /\ \E r \in ExtractOutcomes(update, install) :
        /\ install' = r.dir
        /\ update' = IF r.ok THEN [update EXCEPT !.exists = FALSE] ELSE update
        /\ IF r.ok THEN HGoto("restart") /\ UNCHANGED cause
           ELSE HGoto("rollback") /\ Fail("extract")
    /\ UNCHANGED <<helper, backup, original, launcherRunning, polls, relaunched,
                   waitResult, backedUp, restored, NotHelper>>

\* embedded main(): start DevManager.exe if it exists (os.startfile may raise),
\* else sys.exit(1), which the except Exception block does not catch
E_Restart ==
    /\ helper = "embedded" /\ hpc = "restart"
    /\ IF install.files[ExeName] # "none"
       THEN \/ relaunched' = TRUE /\ HGoto("exit_ok") /\ UNCHANGED cause
            \/ relaunched' = relaunched /\ HGoto("rollback") /\ Fail("launch")
       ELSE relaunched' = relaunched /\ HGoto("exit_fail") /\ Fail("noexe")
    /\ UNCHANGED <<helper, install, backup, update, original, launcherRunning, polls,
                   waitResult, backedUp, restored, NotHelper>>

\* embedded main(), except block: restore the backup directory if one exists
E_Rollback ==
    /\ helper = "embedded" /\ hpc = "rollback"
    /\ IF backup.exists
       THEN \E r \in RestoreOutcomes(backup, install) :
                /\ install' = r.dir
                /\ restored' = IF r.ok THEN "ok" ELSE "failed"
       ELSE UNCHANGED <<install, restored>>
    /\ HGoto("exit_fail")
    /\ UNCHANGED <<helper, backup, update, original, launcherRunning, polls, relaunched,
                   waitResult, backedUp, cause, NotHelper>>

\* self_update.main(): the update file and the install directory must exist
S_Start ==
    /\ helper = "script" /\ hpc = "start"
    /\ IF update.exists /\ install.exists THEN HGoto("wait") /\ UNCHANGED cause
       ELSE HGoto("exit_fail") /\ Fail("input")
    /\ UNCHANGED <<helper, install, backup, update, original, launcherRunning, polls,
                   relaunched, waitResult, backedUp, restored, NotHelper>>

\* wait_for_process_exit: the loop has made all the polls range(max_wait) allows
TimedOutLate(n) == n >= max_wait + 1
TimedOut(n) == n >= max_wait

\* wait_for_process_exit: one pass of the loop: the poll finds the launcher
\* (sleep, next pass) or not (return True); after max_wait polls, return False.
\* main() logs a warning on False and goes on to the backup either way.
S_Poll ==
    /\ helper = "script" /\ hpc = "wait"
    /\ IF TimedOut(polls)
       THEN /\ waitResult' = "False"
            /\ polls' = polls
            /\ HGoto("backup")
       ELSE /\ polls' = polls + 1
            /\ IF launcherRunning
               THEN HGoto("wait") /\ UNCHANGED waitResult
               ELSE HGoto("backup") /\ waitResult' = "True"
    /\ UNCHANGED <<helper, install, backup, update, original, launcherRunning,
                   relaunched, backedUp, cause, restored, NotHelper>>

\* backup_installation: None (and the update is aborted) on any exception
S_Backup ==
    /\ helper = "script" /\ hpc = "backup"
    /\ \E r \in BackupOutcomes(install, backup) :
        /\ backup' = r.dir
        /\ backedUp' = r.ok
        /\ IF r.ok THEN HGoto("extract") /\ UNCHANGED cause
           ELSE HGoto("exit_fail") /\ Fail("backup")
    /\ UNCHANGED <<helper, install, update, original, launcherRunning, polls, relaunched,
                   waitResult, restored, NotHelper>>

\* extract_update, and restore_backup when it fails
S_Extract ==
    /\ helper = "script" /\ hpc = "extract"
    /\ \E x \in ExtractOutcomes(update, install) :
        IF x.ok
        THEN /\ install' = x.dir
             /\ HGoto("restart")
             /\ UNCHANGED <<cause, restored>>
        ELSE \E r \in RestoreOutcomes(backup, x.dir) :
                /\ install' = r.dir
                /\ restored' = IF r.ok THEN "ok" ELSE "failed"
                /\ HGoto("exit_fail")
                /\ Fail("extract")
    /\ UNCHANGED <<helper, backup, update, original, launcherRunning, polls, relaunched,
                   waitResult, backedUp, NotHelper>>

\* restart_application, then cleanup_files(update_file, backup_dir); a missing
\* executable or a failed start returns 1 without restoring the backup
S_Restart ==
    /\ helper = "script" /\ hpc = "restart"
    /\ IF install.files[ExeName] # "none"
       THEN \/ /\ relaunched' = TRUE
               /\ update' = [update EXCEPT !.exists = FALSE]
               /\ backup' = NoDir
               /\ HGoto("exit_ok")
               /\ UNCHANGED cause
            \/ /\ HGoto("exit_fail")
               /\ Fail("launch")
               /\ UNCHANGED <<relaunched, update, backup>>
       ELSE /\ HGoto("exit_fail")
            /\ Fail("noexe")
            /\ UNCHANGED <<relaunched, update, backup>>
    /\ UNCHANGED <<helper, install, original, launcherRunning, polls, waitResult,
                   backedUp, restored, NotHelper>>

NextHelper ==
    \/ LauncherExit
    \/ E_Start
    \/ E_Sleep
    \/ E_Backup
    \/ E_Extract
    \/ E_Restart
    \/ E_Rollback
    \/ S_Start
    \/ S_Poll
    \/ S_Backup
    \/ S_Extract
    \/ S_Restart

SpecHelper == InitHelper /\ [][NextHelper]_vars

\* the complete previous installation, or the complete new one
CompletePrevious == install = original
CompleteNew ==
    /\ \A f \in update.members : install.files[f] = "new"
    /\ install.files[ExeName] # "none"

\* C1: wherever the self-update helper fails, the install directory afterwards
\* holds a runnable installation: the complete previous one or the complete new
\* one.
C1_SelfUpdateSafe ==
    (hpc = "exit_fail" /\ original = FullDir("old"))
        => (CompletePrevious \/ CompleteNew)

\* C15: when the helper exits with failure because the executable is missing
\* after the extraction, it has restored the install directory from the backup
\* it took in this transaction.
C15_MissingExeRollsBack ==
    (hpc = "exit_fail" /\ cause = "noexe" /\ backedUp) => restored # "none"

\* C16: when the extraction fails after the helper's backup step completed and
\* the rollback has run to completion, the install directory equals the backup
\* directory, which equals the install directory as the helper found it.
C16_RollbackRoundTrip ==
    (hpc = "exit_fail" /\ cause = "extract" /\ backedUp /\ restored = "ok")
        => (install = backup /\ backup = original)

C16_Witness ==
    /\ hpc = "exit_fail" /\ cause = "extract" /\ backedUp /\ restored = "ok"
    /\ ~update.bad /\ update.members = Files
    /\ original = PartialDir /\ install = PartialDir

\* C17: every step of the helper that changes the install directory or the
\* backup directory is taken after the launcher process has exited.
C17_WritesAfterLauncherExit ==
    [][(install' # install \/ backup' # backup) => ~launcherRunning]_vars

\* The helper process keeps running: the operating system schedules its next
\* step.  Nothing makes the launcher exit.
HelperStep ==
    \/ E_Start \/ E_Sleep \/ E_Backup \/ E_Extract \/ E_Restart \/ E_Rollback
    \/ S_Start \/ S_Poll \/ S_Backup \/ S_Extract \/ S_Restart

SpecHelperFair == SpecHelper /\ WF_vars(HelperStep)

\* C18: wait_for_process_exit makes at most max_wait polls; it has not returned
\* while the helper waits; it returns True at the first poll that finds no
\* launcher process and False only after max_wait polls; and a waiting helper
\* reaches the backup step, whether or not the launcher ever exits.
C18_WaitBounded ==
    /\ [](polls <= max_wait)
    /\ []((helper = "script" /\ hpc = "wait") => waitResult = "none")
    /\ [](waitResult = "True" => (~launcherRunning /\ polls >= 1))
    /\ [](waitResult = "False" => polls = max_wait)
    /\ [][(helper = "script" /\ hpc = "wait" /\ polls' # polls /\ ~launcherRunning)
            => (waitResult' = "True" /\ hpc' = "backup")]_vars
    /\ ((helper = "script" /\ hpc = "wait") ~> (hpc = "backup"))

C18_Witness ==
    /\ helper = "script" /\ hpc = "backup"
    /\ waitResult = "False" /\ polls = max_wait /\ launcherRunning

\* C27: when the backup step fails partway, the helper ends with the install
\* directory's files as they were before it started.
C27_FailedBackupAborts ==
    (hpc = "exit_fail" /\ cause = "backup") => install.files = original.files

\* C28: when the install directory was empty, so that no backup was taken in
\* this transaction, a failure does not put files of an earlier update's
\* backup into the install directory.
C28_NoStaleRollback ==
    (~NonEmpty(original) /\ hpc = "exit_fail")
        => \A f \in Files : install.files[f] # "stale"

----------------------------------------------------------------------------
(* The updaters, one call at a time: BaseUpdater.check_for_updates,          *)
(* _download_release, the download_and_install_update of DevManagerUpdater   *)
(* and of DevAutomatorUpdater, and DevAutomatorUpdater.stop_devautomator.    *)
(* The worker is installed into the launcher's install directory             *)
(* (DEVAUTOMATOR_INSTALL_DIR = DEVMANAGER_INSTALL_DIR).                      *)

MaxRuns == 2

\* str.lower(), on the capital letters the application names use
LowerChar(c) == CASE c = "D" -> "d" [] c = "M" -> "m" [] c = "A" -> "a" [] OTHER -> c
Lower(s) == [i \in 1..Len(s) |-> LowerChar(s[i])]

\* _download_release: asset_name = f"{self.app_name.lower()}_{platform_key}.zip"
AssetName(a, pk) == Lower(a) \o <<"_">> \o pk \o DotZip

\* the release pipeline: asset_naming[app].format(version=..., platform=platform_key.lower()),
\* with the templates "DevManager_v{version}_{platform}.zip" and
\* "DevAutomator_v{version}_{platform}.zip"
PublishedName(a, version, pk) ==
    a \o <<"_", "v">> \o version \o <<"_">> \o Lower(pk) \o DotZip

\* the assets of a release: one per platform, named as the pipeline names them
\* ("pipeline") or uploaded under the name the updater asks for ("updater")
Conventions == {"pipeline", "updater"}
ReleaseAssets(conv, a, version) ==
    IF conv = "pipeline" THEN {PublishedName(a, version, pk) : pk \in PlatformKeys}
    ELSE {AssetName(a, pk) : pk \in PlatformKeys}

NoArchive == [exists |-> FALSE, bad |-> FALSE, members |-> {}]

\* _download_release(version_tag, install_dir): None ("error": the GET or the
\* stream raised; "noasset": no asset carries the expected name), or the
\* temporary file the asset was streamed into, whatever its content
DownloadRelease(a, pk, names) ==
    {[why |-> "error", archive |-> NoArchive]}
    \cup IF AssetName(a, pk) \in names
         THEN {[why |-> "file", archive |-> u] : u \in Archives}
         ELSE {[why |-> "noasset", archive |-> NoArchive]}

PayloadOf(d) == IF d.why # "file" THEN d.why
                ELSE IF d.archive.bad THEN "corrupt" ELSE "good"

\* stop_devautomator(): terminate(), wait_procs, kill() the survivors, wait_procs,
\* return True; NoSuchProcess and AccessDenied are skipped.  Reading a process
\* whose name or command line is None raises inside the enumeration, which the
\* outer handler turns into False.
AfterStop(k) == IF k = "denied" THEN "denied" ELSE NoProc
StopDevAutomator(ps) ==
    {[ret |-> "True", procs |-> [p \in Pids |-> AfterStop(ps[p])]],
     [ret |-> "False", procs |-> ps]}

UpdateReleases == {<<0, 1, 4>>, <<0, 1, 5>>, <<0, 1, 6>>, <<0, 2>>}
UpdateFeeds == {FeedError} \cup {FeedTag(<<"v">> \o Join(r)) : r \in UpdateReleases}

InitUpdate ==
    /\ app \in AppNames
    /\ platform \in PlatformKeys
    /\ current_version = VERSION
    /\ feed \in UpdateFeeds
    /\ checked = NotChecked
    /\ \E conv \in Conventions : assets = ReleaseAssets(conv, app, LStripV(feed.tag))
    /\ procs \in IF app = DevAutomator THEN [Pids -> ProcKinds]
                ELSE {[p \in Pids |-> NoProc]}    \* only the worker's updater looks at them
    /\ wlast = NoCall
    /\ run = 1
    /\ helper = "none"
    /\ hpc = "idle"
    /\ install \in {FullDir("old"), EmptyDir}
    /\ original = install
    /\ backup \in {NoDir, FullDir("stale")}
    /\ update = NoArchive
    /\ launcherRunning = TRUE
    /\ polls = 0
    /\ relaunched = FALSE
    /\ waitResult = "none"
    /\ backedUp = FALSE
    /\ cause = "none"
    /\ restored = "none"
    /\ TokenIdle
    /\ ProcIdle
    /\ OrchIdle
    /\ RestIdle

Call(op, ret, payload) == [op |-> op, ret |-> ret, payload |-> payload, feed |-> feed]

\* the orchestrator calls download_and_install_update() after check_for_updates()
\* returned True, and for a worker that is not installed
MayInstall == checked.ret = "True" \/ ~NonEmpty(install)

\* DevAutomatorUpdater.download_and_install_update()
W_DownloadAndInstall ==
    /\ app = DevAutomator /\ MayInstall
    /\ original' = install
    /\ checked' = NotChecked
    /\ LET latest_version == GetLatestVersion(feed)
       IN  IF latest_version.none \/ latest_version.str = <<>>
           THEN /\ wlast' = Call("install", "False", "error")
                /\ UNCHANGED <<install, update, procs>>
           ELSE \E d \in DownloadRelease(app, platform, assets) :
                    IF d.why # "file"
                    THEN /\ wlast' = Call("install", "False", PayloadOf(d))
                         /\ UNCHANGED <<install, update, procs>>
                    ELSE \E st \in StopDevAutomator(procs) :
                         \E r \in ExtractOutcomes(d.archive, [install EXCEPT !.exists = TRUE]) :
                             /\ procs' = st.procs
                             /\ install' = r.dir
                             /\ update' = IF r.ok THEN NoArchive ELSE d.archive    \* unlink()
                             /\ wlast' = Call("install", IF r.ok THEN "True" ELSE "False",
                                              PayloadOf(d))
    /\ UNCHANGED <<tokenVars, procVars, current_version, feed, helper, hpc, backup,
                   launcherRunning, polls, relaunched, waitResult, backedUp, cause,
                   restored, app, platform, assets, run, orchVars, restVars>>

\* DevManagerUpdater.download_and_install_update(): the download, then
\* _create_self_update_script writes the helper and starts it with Popen
DM_DownloadAndInstall ==
    /\ app = DevManager /\ MayInstall /\ helper = "none"
    /\ original' = install
    /\ checked' = NotChecked
    /\ LET latest_version == GetLatestVersion(feed)
       IN  IF latest_version.none \/ latest_version.str = <<>>
           THEN /\ wlast' = Call("install", "False", "error")
                /\ UNCHANGED <<update, helper, hpc>>
           ELSE \E d \in DownloadRelease(app, platform, assets) :
                    IF d.why # "file"
                    THEN /\ wlast' = Call("install", "False", PayloadOf(d))
                         /\ UNCHANGED <<update, helper, hpc>>
                    ELSE \/ /\ update' = d.archive
                            /\ helper' = "embedded"
                            /\ hpc' = "start"
                            /\ wlast' = Call("install", "True", PayloadOf(d))
                         \/ /\ update' = d.archive     \* Popen raised
                            /\ wlast' = Call("install", "False", PayloadOf(d))
                            /\ UNCHANGED <<helper, hpc>>
    /\ UNCHANGED <<tokenVars, procVars, current_version, feed, install, backup,
                   launcherRunning, polls, relaunched, waitResult, backedUp, cause,
                   restored, app, platform, assets, procs, run, orchVars, restVars>>

\* DevAutomatorUpdater.stop_devautomator(), called by the orchestrator
W_Stop ==
    /\ app = DevAutomator
    /\ \E st \in StopDevAutomator(procs) :
        /\ procs' = st.procs
        /\ wlast' = Call("stop", st.ret, "none")
    /\ UNCHANGED <<tokenVars, procVars, checkVars, helperVars, app, platform, assets, run,
                   orchVars, restVars>>

\* the launcher is started again: a new updater object, VERSION as built in
NextRun ==
    /\ run < MaxRuns /\ helper = "none"
    /\ run' = run + 1
    /\ current_version' = VERSION
    /\ checked' = NotChecked
    /\ UNCHANGED <<tokenVars, procVars, feed, helperVars, app, platform, assets, procs,
                   wlast, orchVars, restVars>>

NextUpdate ==
    \/ CheckForUpdates
    \/ W_DownloadAndInstall
    \/ DM_DownloadAndInstall
    \/ W_Stop
    \/ NextRun

SpecUpdate == InitUpdate /\ [][NextUpdate]_vars

\* Between check_for_updates() and download_and_install_update() the feed's
\* latest release is replaced by another one
ReleasePublished ==
    /\ checked.ret # "none"
    /\ feed' \in (UpdateFeeds \ {FeedError, feed})
    /\ \E conv \in Conventions : assets' = ReleaseAssets(conv, app, LStripV(feed'.tag))
    /\ UNCHANGED <<tokenVars, procVars, current_version, checked, helperVars, app, platform,
                   procs, wlast, run, orchVars, restVars>>

InitUpdateRace ==
    /\ InitUpdate
    /\ platform = <<"w", "i", "n", "d", "o", "w", "s">>
    /\ install = FullDir("old")
    /\ backup = NoDir
    /\ procs = [p \in Pids |-> NoProc]

NextUpdateRace ==
    \/ CheckForUpdates
    \/ ReleasePublished
    \/ W_DownloadAndInstall
    \/ DM_DownloadAndInstall

SpecUpdateRace == InitUpdateRace /\ [][NextUpdateRace]_vars

\* C26: a download_and_install_update() that follows a check_for_updates() which
\* returned True, and that returns True, has fetched a release strictly newer
\* than the current version, also when the feed's latest release changed in
\* between.
C26_InstallsWhatWasChecked ==
    [][(/\ checked.ret = "True"
        /\ wlast' # wlast /\ wlast'.op = "install" /\ wlast'.ret = "True")
          => VersionGreater(VersionParse(LStripV(wlast'.feed.tag)).release,
                            VersionParse(current_version).release)]_vars

\* C11: after DevAutomatorUpdater.download_and_install_update() returned True, a
\* check_for_updates() against the unchanged feed, in the same launcher run or a
\* later one, returns False.
C11_InstalledIsCurrent ==
    (/\ app = DevAutomator
     /\ wlast.op = "install" /\ wlast.ret = "True"
     /\ checked.ret # "none" /\ checked.feed = wlast.feed)
        => checked.ret = "False"

\* C12: when the download fails or delivers a corrupt payload,
\* download_and_install_update returns False and the install directory is as it
\* was before the call.
C12_FailedDownloadLeavesInstall ==
    (wlast.op = "install" /\ wlast.payload \in {"error", "corrupt"})
        => (wlast.ret = "False" /\ install = original)

\* C13: when the release carries the asset the pipeline publishes for the
\* running platform, _download_release does not end with "no asset found".
C13_PublishedAssetResolved ==
    (/\ wlast.op = "install"
     /\ wlast.feed.status = "ok"
     /\ PublishedName(app, LStripV(wlast.feed.tag), platform) \in assets)
        => wlast.payload # "noasset"

\* C14: a step that overwrites a file of a non-empty install directory leaves a
\* full copy of the pre-update install directory in the backup directory.
C14_BackupBeforeOverwrite ==
    [][(NonEmpty(install) /\ install'.files # install.files)
          => (backup'.exists /\ backup'.files = original'.files)]_vars

\* C20: after stop_devautomator() returned True no matched worker process is
\* alive.
C20_StopMeansStopped ==
    (wlast.op = "stop" /\ wlast.ret = "True") => \A p \in Pids : procs[p] = NoProc

\* C21: a stop_devautomator() call made when no worker process matches returns
\* True.
C21_NothingToStopIsSuccess ==
    [][(wlast'.op = "stop" /\ wlast' # wlast /\ \A p \in Pids : procs[p] = NoProc)
          => wlast'.ret = "True"]_vars

----------------------------------------------------------------------------
(* Simple mode: the orchestrator.  handle_simple_mode shows the window and   *)
(* NormalModeWorker.run does the work ("gui"); when the window cannot be     *)
(* shown, handle_simple_mode_terminal does it ("terminal").  The self-update *)
(* helper the orchestrator spawns runs beside it.                            *)

LaterSteps == {"w_check", "w_stop", "w_install", "mint", "launch"}

InitOrch ==
    /\ mode \in {"gui", "terminal"}
    /\ opc = "dm_check"
    /\ exitCode = NoExit
    /\ did = {}
    /\ app = DevManager
    /\ platform \in PlatformKeys
    /\ current_version = VERSION
    /\ feed \in UpdateFeeds
    /\ wfeed \in UpdateFeeds
    /\ checked = NotChecked
    /\ \E c1 \in Conventions, c2 \in Conventions :
          assets = ReleaseAssets(c1, DevManager, LStripV(feed.tag))
                     \cup ReleaseAssets(c2, DevAutomator, LStripV(wfeed.tag))
    /\ procs \in {[p \in Pids |-> k] : k \in {NoProc, "denied"}}
    /\ wlast = NoCall
    /\ run = 1
    /\ helper = "none"
    /\ hpc = "idle"
    /\ install \in {FullDir("old"), EmptyDir}
    /\ original = install
    /\ backup = NoDir
    /\ update = NoArchive
    /\ launcherRunning = TRUE
    /\ polls = 0
    /\ relaunched = FALSE
    /\ waitResult = "none"
    /\ backedUp = FALSE
    /\ cause = "none"
    /\ restored = "none"
    /\ TokenIdle
    /\ ProcIdle
    /\ RestIdle

\* DevManagerUpdater.download_and_install_update(): what it returns, with the
\* payload it got; it returns True exactly when it has started the helper
DmInstallOutcomes(f) ==
    LET latest_version == GetLatestVersion(f)
    IN  IF latest_version.none \/ latest_version.str = <<>>
        THEN {[ret |-> "False", payload |-> "error", archive |-> NoArchive]}
        ELSE {[ret |-> IF d.why = "file" /\ started THEN "True" ELSE "False",
               payload |-> PayloadOf(d),
               archive |-> d.archive] :
                  d \in DownloadRelease(DevManager, platform, assets), started \in BOOLEAN}

\* where the orchestrator goes after the launcher's download_and_install_update():
\* return 0 (terminal) or finished.emit(True, ...) and return (gui) on True;
\* on False the terminal goes on to the worker and the window reports the failure
AfterSelfUpdateContinue(m, ret) ==
    IF m = "terminal" THEN "worker"
    ELSE IF ret = "True" THEN "gui_ok" ELSE "gui_failed"
AfterSelfUpdate(m, ret) ==
    IF ret = "True" THEN (IF m = "terminal" THEN "done" ELSE "gui_ok")
    ELSE (IF m = "terminal" THEN "worker" ELSE "gui_failed")

\* Step 1: DevManagerUpdater().check_for_updates()
O_DmCheck ==
    /\ opc = "dm_check"
    /\ LET r == CheckForUpdatesResult(feed, current_version)
       IN  /\ checked' = [ret |-> r, feed |-> feed]
           /\ opc' = IF r = "True" THEN "dm_install" ELSE "worker"
    /\ did' = did \cup {"dm_check"}
    /\ UNCHANGED <<tokenVars, procVars, current_version, feed, helperVars, updateVars,
                   mode, exitCode, wfeed, restVars>>

\* Step 1: devmanager_updater.download_and_install_update() and what follows it
O_DmInstall ==
    /\ opc = "dm_install"
    /\ \E o \in DmInstallOutcomes(feed) :
        /\ wlast' = [op |-> "install", ret |-> o.ret, payload |-> o.payload, feed |-> feed]
        /\ update' = o.archive
        /\ opc' = AfterSelfUpdate(mode, o.ret)
        /\ IF o.ret = "True"
           THEN /\ helper' = "embedded"
                /\ hpc' = "start"
                /\ original' = install
                /\ did' = did \cup {"dm_install", "spawned"}
           ELSE /\ did' = did \cup {"dm_install"}
                /\ UNCHANGED <<helper, hpc, original>>
        /\ IF AfterSelfUpdate(mode, o.ret) = "done"
           THEN exitCode' = 0 /\ launcherRunning' = FALSE
           ELSE UNCHANGED <<exitCode, launcherRunning>>
    /\ UNCHANGED <<tokenVars, procVars, checkVars, install, backup, polls, relaunched,
                   waitResult, backedUp, cause, restored, app, platform, assets, procs,
                   run, mode, wfeed, restVars>>

\* Step 2 in the terminal: DevAutomatorUpdater has no is_devautomator_installed(),
\* the call raises AttributeError and the handler returns 1
O_TerminalWorker ==
    /\ opc = "worker" /\ mode = "terminal"
    /\ opc' = "done"
    /\ exitCode' = 1
    /\ launcherRunning' = FALSE
    /\ UNCHANGED <<tokenVars, procVars, checkVars, helper, hpc, install, backup, update,
                   original, polls, relaunched, waitResult, backedUp, cause, restored,
                   updateVars, mode, did, wfeed, restVars>>

\* Step 2 in the window: DevAutomatorUpdater().check_for_updates()
O_WorkerCheck ==
    /\ opc = "worker" /\ mode = "gui"
    /\ LET r == CheckForUpdatesResult(wfeed, current_version)
       IN  /\ checked' = [ret |-> r, feed |-> wfeed]
           /\ opc' = IF r = "True" THEN "w_install" ELSE "mint"
    /\ did' = did \cup {"w_check"}
    /\ UNCHANGED <<tokenVars, procVars, current_version, feed, helperVars, updateVars,
                   mode, exitCode, wfeed, restVars>>

\* Step 2 in the window: stop_devautomator(), then the worker's
\* download_and_install_update(), which stops the worker again before extracting
O_WorkerInstall ==
    /\ opc = "w_install"
    /\ did' = did \cup {"w_stop", "w_install"}
    /\ \E st \in StopDevAutomator(procs) :
       LET latest_version == GetLatestVersion(wfeed)
       IN  IF latest_version.none \/ latest_version.str = <<>>
           THEN /\ wlast' = [op |-> "install", ret |-> "False", payload |-> "error",
                             feed |-> wfeed]
                /\ procs' = st.procs
                /\ opc' = "gui_failed"
                /\ UNCHANGED <<install, update>>
           ELSE \E d \in DownloadRelease(DevAutomator, platform, assets) :
                    IF d.why # "file"
                    THEN /\ wlast' = [op |-> "install", ret |-> "False",
                                      payload |-> PayloadOf(d), feed |-> wfeed]
                         /\ procs' = st.procs
                         /\ opc' = "gui_failed"
                         /\ UNCHANGED <<install, update>>
                    ELSE \E st2 \in StopDevAutomator(st.procs) :
                         \E r \in ExtractOutcomes(d.archive, [install EXCEPT !.exists = TRUE]) :
                             /\ procs' = st2.procs
                             /\ install' = r.dir
                             /\ update' = IF r.ok THEN NoArchive ELSE d.archive
                             /\ wlast' = [op |-> "install",
                                          ret |-> IF r.ok THEN "True" ELSE "False",
                                          payload |-> PayloadOf(d), feed |-> wfeed]
                             /\ opc' = IF r.ok THEN "mint" ELSE "gui_failed"
    /\ UNCHANGED <<tokenVars, procVars, checkVars, helper, hpc, backup, original,
                   launcherRunning, polls, relaunched, waitResult, backedUp, cause,
                   restored, app, platform, assets, run, mode, exitCode, wfeed, restVars>>

\* Step 3: CompatibleTokenHandler().generate_token()
O_Mint ==
    /\ opc = "mint"
    /\ slot' = SaveTokenData(slot, NewTokenData(nextTok, now))
    /\ nextTok' = nextTok + 1
    /\ Record("generate", nextTok, TRUE)
    /\ did' = did \cup {"mint"}
    /\ opc' = "launch"
    /\ UNCHANGED <<now, consumed, procVars, checkVars, helperVars, updateVars, mode,
                   exitCode, wfeed, restVars>>

\* Step 3: start_devautomator_with_token(token): False when the worker's
\* executable is missing or Popen raises
O_Launch ==
    /\ opc = "launch"
    /\ \/ did' = did \cup {"launch"} /\ opc' = "gui_ok"
       \/ did' = did /\ opc' = "gui_failed"
    /\ UNCHANGED <<tokenVars, procVars, checkVars, helperVars, updateVars, mode,
                   exitCode, wfeed, restVars>>

\* operation_finished(True, ...): QTimer.singleShot(3000, self.close); the event
\* loop ends and handle_simple_mode returns 0
O_WindowCloses ==
    /\ opc = "gui_ok"
    /\ opc' = "done"
    /\ exitCode' = 0
    /\ launcherRunning' = FALSE
    /\ UNCHANGED <<tokenVars, procVars, checkVars, helper, hpc, install, backup, update,
                   original, polls, relaunched, waitResult, backedUp, cause, restored,
                   updateVars, mode, did, wfeed, restVars>>

\* operation_finished(False, ...): the window stays until the user closes it;
\* handle_simple_mode returns 1
O_UserCloses ==
    /\ opc = "gui_failed"
    /\ opc' = "done"
    /\ exitCode' = 1
    /\ launcherRunning' = FALSE
    /\ UNCHANGED <<tokenVars, procVars, checkVars, helper, hpc, install, backup, update,
                   original, polls, relaunched, waitResult, backedUp, cause, restored,
                   updateVars, mode, did, wfeed, restVars>>

NextOrch ==
    \/ O_DmCheck
    \/ O_DmInstall
    \/ O_TerminalWorker
    \/ O_WorkerCheck
    \/ O_WorkerInstall
    \/ O_Mint
    \/ O_Launch
    \/ O_WindowCloses
    \/ O_UserCloses
    \/ E_Start
    \/ E_Sleep
    \/ E_Backup
    \/ E_Extract
    \/ E_Restart
    \/ E_Rollback

SpecOrch == InitOrch /\ [][NextOrch]_vars

\* The timer operation_finished started fires and the event loop ends.  Nothing
\* is assumed of the helper, and the terminal returns in the step that spawned it.
SpecOrchFair == SpecOrch /\ WF_vars(O_WindowCloses)

C24_TerminalFlow ==
    (/\ mode = "terminal" /\ opc = "done"
     /\ CheckForUpdatesResult(feed, current_version) = "False"
     /\ CheckForUpdatesResult(wfeed, current_version) = "False"
     /\ NonEmpty(install))
        => (exitCode = 0 /\ {"mint", "launch"} \subseteq did)

----------------------------------------------------------------------------
(* main() and the first-run installation.  main() parses the command line,   *)
(* runs handle_first_run_installation() unless a token was given, and        *)
(* returns what the mode handler returns.  Without administrator rights the  *)
(* installer writes an install script and starts it elevated with            *)
(* ShellExecuteW, which returns as soon as the script has been started: the  *)
(* script then runs beside the installing process.                           *)

RestartRequested == 2       \* handle_first_run_installation: "restart needed"
Interrupted == 130          \* main(): KeyboardInterrupt
UsageError == 2             \* argparse: parser.error() ends the process with status 2

\* FirstRunInstaller.needs_installation()
NeedsInstallation(running, exe) ==
    IF running = "installed" THEN FALSE
    ELSE IF running = "temp" THEN TRUE
    ELSE ~exe

\* main(): what it returns right after handle_first_run_installation() returned
\* install_result; NoExit when it goes on to the mode handler
AfterFirstRunLeak(install_result) ==
    IF install_result = 0 THEN NoExit ELSE install_result
AfterFirstRun(install_result) ==
    IF install_result = 1 THEN 1
    ELSE IF install_result = RestartRequested THEN 0
    ELSE NoExit

\* the values the mode handlers return: handle_token_mode returns 0, 1 or 130,
\* handle_simple_mode 0 or 1; an exception that escapes them makes main() return 1
HandlerReturns(token) == IF token THEN {0, 1, Interrupted} ELSE {0, 1}

\* test_encryption_system()
TestEncryptionReturns == {0, 1}

InitInstall ==
    /\ args \in [valid : BOOLEAN, test_encryption : BOOLEAN, token : BOOLEAN]
    /\ env \in [running : {"installed", "temp", "other"}, admin : BOOLEAN, gui : BOOLEAN]
    /\ ipc = "start"
    /\ spc = "idle"
    /\ installedExe \in BOOLEAN
    /\ (env.running = "installed" => installedExe)
    /\ launches = 0
    /\ firstRun = NoExit
    /\ exitCode = NoExit
    /\ mode = "none"
    /\ opc = "idle"
    /\ did = {}
    /\ wfeed = [status |-> "error", tag |-> <<>>]
    /\ va = NoVersion
    /\ vb = NoVersion
    /\ vc = NoVersion
    /\ verdict = NoVerdict
    /\ printed = BogusToken
    /\ entered = "none"
    /\ TokenIdle
    /\ ProcIdle
    /\ CheckIdle
    /\ HelperIdle
    /\ UpdateIdle

NotInstall == <<tokenVars, procVars, checkVars, helperVars, updateVars,
                mode, opc, did, wfeed, versionVars, devVars>>

\* main() returns code
Return(code) ==
    /\ exitCode' = code
    /\ ipc' = "exited"

\* handle_first_run_installation() returns install_result to main()
FirstRunReturns(install_result) ==
    /\ firstRun' = install_result
    /\ exitCode' = AfterFirstRun(install_result)
    /\ ipc' = IF AfterFirstRun(install_result) = NoExit THEN "handler" ELSE "exited"

\* main(): parse_arguments(), --test-encryption, and the choice of the first-run check
M_Parse ==
    /\ ipc = "start"
    /\ IF ~args.valid                 \* parse_args() raises SystemExit: main() does not return
       THEN /\ ipc' = "usage"
            /\ exitCode' = UsageError
       ELSE IF args.test_encryption
       THEN \E code \in TestEncryptionReturns : Return(code)
       ELSE /\ ipc' = IF args.token THEN "handler" ELSE "first_run"
            /\ UNCHANGED exitCode
    /\ UNCHANGED <<args, env, spc, installedExe, launches, firstRun, NotInstall>>

\* handle_first_run_installation(): needs_installation()
M_NeedsInstallation ==
    /\ ipc = "first_run"
    /\ IF NeedsInstallation(env.running, installedExe)
       THEN /\ ipc' = "install"
            /\ UNCHANGED <<firstRun, exitCode>>
       ELSE FirstRunReturns(0)
    /\ UNCHANGED <<args, env, spc, installedExe, launches, NotInstall>>

\* show_install_dialog(installer), or installer.install() when the dialog raised:
\* an elevated process copies the executable itself; any other starts the install
\* script with ShellExecuteW and takes a result above 32 as success
M_Install ==
    /\ ipc = "install"
    /\ \/ /\ env.gui                         \* the dialog is closed without installing
          /\ FirstRunReturns(1)
          /\ UNCHANGED <<spc, installedExe>>
       \/ /\ env.admin                       \* _copy_executable()
          /\ \/ /\ installedExe' = TRUE
                /\ ipc' = "restart"
                /\ UNCHANGED <<firstRun, exitCode>>
             \/ /\ FirstRunReturns(1)
                /\ UNCHANGED installedExe
          /\ UNCHANGED spc
       \/ /\ ~env.admin                      \* _install_with_admin_privileges()
          /\ \/ /\ spc' = "copy"
                /\ ipc' = "restart"
                /\ UNCHANGED <<firstRun, exitCode>>
             \/ /\ FirstRunReturns(1)        \* the elevation prompt is refused
                /\ UNCHANGED spc
          /\ UNCHANGED installedExe
    /\ UNCHANGED <<args, env, launches, NotInstall>>

\* restart_from_install_location(): False when installed_exe does not exist or
\* starting it raises, True once os.startfile(installed_exe) has returned
M_Restart ==
    /\ ipc = "restart"
    /\ IF installedExe
       THEN \/ /\ launches' = launches + 1
               /\ FirstRunReturns(RestartRequested)
            \/ /\ FirstRunReturns(1)
               /\ UNCHANGED launches
       ELSE /\ FirstRunReturns(1)
            /\ UNCHANGED launches
    /\ UNCHANGED <<args, env, spc, installedExe, NotInstall>>

\* handle_token_mode(args.token) or handle_simple_mode()
M_Handler ==
    /\ ipc = "handler"
    /\ \E code \in HandlerReturns(args.token) : Return(code)
    /\ UNCHANGED <<args, env, spc, installedExe, launches, firstRun, NotInstall>>

\* Ctrl-C while main() runs: except KeyboardInterrupt
M_Interrupt ==
    /\ ipc \in {"first_run", "install", "restart", "handler"}
    /\ Return(Interrupted)
    /\ UNCHANGED <<args, env, spc, installedExe, launches, firstRun, NotInstall>>

\* the install script: mkdir and shutil.copy2(CURRENT_EXE, INSTALLED_EXE)
I_Copy ==
    /\ spc = "copy"
    /\ \/ /\ installedExe' = TRUE
          /\ spc' = "launch"
       \/ /\ spc' = "failed"
          /\ UNCHANGED installedExe
    /\ UNCHANGED <<args, env, ipc, launches, firstRun, exitCode, NotInstall>>

\* the install script: os.startfile(str(INSTALLED_EXE))
I_Launch ==
    /\ spc = "launch"
    /\ \/ /\ launches' = launches + 1
          /\ spc' = "done"
       \/ /\ spc' = "failed"
          /\ UNCHANGED launches
    /\ UNCHANGED <<args, env, ipc, installedExe, firstRun, exitCode, NotInstall>>

NextInstall ==
    \/ M_Parse
    \/ M_NeedsInstallation
    \/ M_Install
    \/ M_Restart
    \/ M_Handler
    \/ M_Interrupt
    \/ I_Copy
    \/ I_Launch

SpecInstall == InitInstall /\ [][NextInstall]_vars

\* C22: main() returns 0, 1 or 130; when handle_first_run_installation returned
\* the code 2 for "restart requested", main() returns 0 and the process exits 0.
C22_ExitCodes ==
    /\ ipc = "exited" => exitCode \in {0, 1, Interrupted}
    /\ firstRun = RestartRequested => (ipc = "exited" /\ exitCode = 0)

C22_Witness == ipc = "exited" /\ firstRun = RestartRequested /\ exitCode = 0

\* C30: under every interleaving of the installing process and the elevated
\* install script, at most one launcher instance is started from the install
\* location.
C30_StartedAtMostOnce == launches <= 1

----------------------------------------------------------------------------
(* common/version.py: the Version class wraps packaging.version.Version and  *)
(* compares by it.  packaging compares versions by a key: the release        *)
(* numbers with trailing zeros dropped, then the pre-release segment, where  *)
(* a final release sorts after every pre-release of the same release.        *)

VNum == 1
VLens == {1, 2}
PreSuffixes == {<<>>, <<"a", "1">>, <<"a", "2">>}

\* the part of a version string before its pre-release letter, and the rest
PreIndex(s) == IF \E i \in 1..Len(s) : s[i] = "a"
               THEN CHOOSE i \in 1..Len(s) : s[i] = "a" /\ \A j \in 1..(i - 1) : s[j] # "a"
               ELSE 0

\* Version(version_string): strip(), then packaging's parse
VersionInit(s) ==
    LET k == PreIndex(s)
        body == IF k = 0 THEN s ELSE SubSeq(s, 1, k - 1)
        tail == IF k = 0 THEN <<>> ELSE SubSeq(s, k + 1, Len(s))
        rel == VersionParse(body)
    IN  [ok |-> rel.ok /\ \A j \in 1..Len(tail) : IsDigit(tail[j]),
         release |-> rel.release,
         pre |-> IF k = 0 THEN <<1>> ELSE <<0, ToNum(tail)>>]

\* packaging's comparison key of a parsed version
VersionKey(v) == [release |-> StripTrailingZeros(v.release), pre |-> v.pre]
KeyLess(k1, k2) ==
    \/ TupleLess(k1.release, k2.release)
    \/ k1.release = k2.release /\ TupleLess(k1.pre, k2.pre)

\* Version.__eq__, __lt__, __gt__ and __hash__ on version strings
Version_eq(a, b) == VersionKey(VersionInit(a)) = VersionKey(VersionInit(b))
Version_lt(a, b) == KeyLess(VersionKey(VersionInit(a)), VersionKey(VersionInit(b)))
Version_gtRaw(a, b) ==
    \/ TupleLess(VersionInit(b).release, VersionInit(a).release)
    \/ VersionInit(b).release = VersionInit(a).release
         /\ TupleLess(VersionInit(b).pre, VersionInit(a).pre)
Version_gt(a, b) == KeyLess(VersionKey(VersionInit(b)), VersionKey(VersionInit(a)))
Version_hash(a) == VersionKey(VersionInit(a))

\* is_newer_version(current, latest)
is_newer_version(current, latest) == Version_gt(latest, current)

ValidVersions ==
    {Join(r) \o sfx : r \in UNION {[1..n -> 0..VNum] : n \in VLens}, sfx \in PreSuffixes}

InitVersion ==
    /\ va \in ValidVersions
    /\ vb \in ValidVersions
    /\ vc \in ValidVersions
    /\ verdict = NoVerdict
    /\ args = [valid |-> TRUE, test_encryption |-> FALSE, token |-> FALSE]
    /\ env = [running |-> "installed", admin |-> FALSE, gui |-> FALSE]
    /\ ipc = "idle"
    /\ spc = "idle"
    /\ installedExe = FALSE
    /\ launches = 0
    /\ firstRun = NoExit
    /\ printed = BogusToken
    /\ entered = "none"
    /\ TokenIdle
    /\ ProcIdle
    /\ CheckIdle
    /\ HelperIdle
    /\ UpdateIdle
    /\ OrchIdle

\* the comparisons of va, vb and vc are made
Compare ==
    /\ ~verdict.made
    /\ verdict' = [made |-> TRUE,
                   ok |-> VersionInit(va).ok /\ VersionInit(vb).ok /\ VersionInit(vc).ok,
                   lt_ab |-> Version_lt(va, vb),
                   eq_ab |-> Version_eq(va, vb),
                   gt_ab |-> Version_gt(va, vb),
                   lt_ba |-> Version_lt(vb, va),
                   lt_bc |-> Version_lt(vb, vc),
                   lt_ac |-> Version_lt(va, vc),
                   newer_ab |-> is_newer_version(va, vb),
                   same_hash |-> Version_hash(va) = Version_hash(vb)]
    /\ UNCHANGED <<tokenVars, procVars, checkVars, helperVars, updateVars, orchVars,
                   installVars, va, vb, vc, devVars>>

\* the same versions are compared again
Forget ==
    /\ verdict.made
    /\ verdict' = NoVerdict
    /\ UNCHANGED <<tokenVars, procVars, checkVars, helperVars, updateVars, orchVars,
                   installVars, va, vb, vc, devVars>>

NextVersion == Compare \/ Forget

SpecVersion == InitVersion /\ [][NextVersion]_vars

Count(b) == IF b THEN 1 ELSE 0

\* C23: on valid versions a, b, c: a<b and b<c imply a<c; a<b and b<a never
\* both hold; exactly one of a<b, a==b, a>b holds; a>b is b<a; equal versions
\* hash alike; is_newer_version(a, b) is a<b.
C23_StrictTotalOrder ==
    (verdict.made /\ verdict.ok) =>
        /\ (verdict.lt_ab /\ verdict.lt_bc) => verdict.lt_ac
        /\ ~(verdict.lt_ab /\ verdict.lt_ba)
        /\ Count(verdict.lt_ab) + Count(verdict.eq_ab) + Count(verdict.gt_ab) = 1
        /\ verdict.gt_ab = verdict.lt_ba
        /\ verdict.eq_ab => verdict.same_hash
        /\ verdict.newer_ab = verdict.lt_ab

\* "1.0" and "1" are equal, and "1a1" sorts before both
C23_Witness ==
    /\ verdict.made /\ verdict.ok
    /\ va = <<"1", ".", "0">> /\ vb = <<"1">> /\ vc = <<"1", "a", "1">>
    /\ verdict.eq_ab /\ ~verdict.lt_ab /\ ~verdict.gt_ab /\ ~verdict.lt_bc

----------------------------------------------------------------------------
(* scripts/generate_token.py and developer mode.  The script mints with      *)
(* token_handler.TokenHandler, which signs a JWT and stores its jti;         *)
(* main.py imports CompatibleTokenHandler under the name TokenHandler, so    *)
(* handle_token_mode validates with the hash-based handler.  Both handlers   *)
(* keep their record in the same file, CONFIG_DIR / TOKEN_FILE.              *)

\* payload["jti"] = secrets.token_urlsafe(16) of the n-th token minted; the
\* encoded JWT is plaintext number n, a string no token_urlsafe(32) equals
Jti(n) == <<"jti", n>>

\* token_data.get("token_hash") on a dictionary without that key
Absent == <<"None">>

\* the token_data dictionary TokenHandler.generate_token stores
JwtTokenData(n, t) ==
    [kind |-> "record",
     jti |-> Jti(n),
     token_hash |-> Absent,
     created_at |-> t,
     expires_at |-> t + TOKEN_EXPIRY_HOURS,
     used |-> FALSE,
     used_at |-> NoTime]

\* handle_token_mode(token): CompatibleTokenHandler.validate_token decides
\* between developer mode and "Invalid or expired token", return 1
TokenModeEnters(f, token, t) == ValidateCheck(LoadTokenData(f), token, t) = "ok"

InitDevToken ==
    /\ printed = BogusToken
    /\ entered = "none"
    /\ args = [valid |-> TRUE, test_encryption |-> FALSE, token |-> FALSE]
    /\ env = [running |-> "installed", admin |-> FALSE, gui |-> FALSE]
    /\ ipc = "idle"
    /\ spc = "idle"
    /\ installedExe = FALSE
    /\ launches = 0
    /\ firstRun = NoExit
    /\ va = NoVersion
    /\ vb = NoVersion
    /\ vc = NoVersion
    /\ verdict = NoVerdict
    /\ TokenIdle
    /\ ProcIdle
    /\ CheckIdle
    /\ HelperIdle
    /\ UpdateIdle
    /\ OrchIdle

\* python scripts/generate_token.py: TokenHandler().generate_token(), printed
ScriptGenerate ==
    /\ nextTok <= MaxTokens
    /\ slot' = SaveTokenData(slot, JwtTokenData(nextTok, now))
    /\ printed' = nextTok
    /\ nextTok' = nextTok + 1
    /\ entered' = "none"
    /\ UNCHANGED <<now, lastOp, prevOp, consumed, procVars, checkVars, helperVars,
                   updateVars, orchVars, installVars, versionVars>>

\* python scripts/generate_token.py --revoke
ScriptRevoke ==
    /\ slot # NoFile
    /\ slot' = NoFile
    /\ UNCHANGED <<now, nextTok, lastOp, prevOp, consumed, procVars, checkVars, helperVars,
                   updateVars, orchVars, installVars, versionVars, devVars>>

\* the launcher in simple mode mints the worker's token into the same file
LauncherMints ==
    /\ nextTok <= MaxTokens
    /\ slot' = SaveTokenData(slot, NewTokenData(nextTok, now))
    /\ nextTok' = nextTok + 1
    /\ UNCHANGED <<now, lastOp, prevOp, consumed, procVars, checkVars, helperVars,
                   updateVars, orchVars, installVars, versionVars, devVars>>

\* python src/main.py --token <printed>: validate_token, then mark_token_used
HandleTokenMode ==
    /\ printed # BogusToken /\ entered = "none"
    /\ IF TokenModeEnters(slot, printed, now)
       THEN /\ entered' = "developer"
            /\ slot' = SaveTokenData(slot, MarkedUsed(LoadTokenData(slot), now))
       ELSE /\ entered' = "rejected"
            /\ UNCHANGED slot
    /\ UNCHANGED <<now, nextTok, lastOp, prevOp, consumed, printed, procVars, checkVars,
                   helperVars, updateVars, orchVars, installVars, versionVars>>

NextDevToken ==
    \/ ScriptGenerate
    \/ ScriptRevoke
    \/ LauncherMints
    \/ HandleTokenMode
    \/ Tick

SpecDevToken == InitDevToken /\ [][NextDevToken]_vars

\* the token file still holds the unused record the script wrote for the
\* printed token, and its 24 hours have not run out
PrintedIsFresh ==
    /\ printed # BogusToken
    /\ IsRecord(slot) /\ slot.token_hash = Absent
    /\ slot.jti = Jti(printed) /\ ~slot.used
    /\ now < slot.expires_at

\* C25: main.py --token <token>, with a token generate_token.py printed less
\* than 24 hours ago and not used since, enters developer mode.
C25_PrintedTokenAccepted ==
    [][(entered = "none" /\ entered' # "none" /\ PrintedIsFresh)
          => entered' = "developer"]_vars

====
